---- MODULE Spec2Model ----
(***************************************************************************)
(* A model of pythonx/libclang.py: the compilation-database resolver       *)
(* (getCompilationDBParams / getCompileParams), the translation-unit cache *)
(* (getCurrentTranslationUnit and the public operations around it), the    *)
(* quickfix extraction (getQuickFix / getQuickFixList) and the completion  *)
(* formatter (formatResult).                                               *)
(*                                                                         *)
(* Text is modelled at character level: a Python str is a sequence of      *)
(* one-character strings, so that startswith, slicing, substring tests and *)
(* the os.path functions are computed the way the library computes them.   *)
(***************************************************************************)
EXTENDS Integers, Sequences, FiniteSets, TLC

VARIABLES
  \* ---- resolver (getCompilationDBParams / getCompileParams)
  compilation_database, \* global compilation_database: None, or fileName -> command
  builtinHeaderPath,    \* global builtinHeaderPath: None or a path
  last_query,           \* getCompilationDBParams.last_query: [args: list object, cwd]
  heap,                 \* the Python list objects: object id -> list of str
  dbParams,             \* what getCompilationDBParams returned to that call
  params,               \* what the last getCompileParams call returned (or raised)
  call,                 \* the inputs of the last getCompileParams call
  lastHit               \* history: the file of the most recent successful lookup

varsR == <<compilation_database, builtinHeaderPath, last_query, heap, dbParams,
           params, call, lastHit>>

VARIABLES
  \* ---- translation units (getCurrentTranslationUnit and its callers)
  translationUnits,     \* global translationUnits: fileName -> handle, NoTU when absent
  tus,                  \* the TranslationUnit objects the index created, by handle
  libclangLock,         \* global libclangLock: the thread holding it, or Free
  pc,                   \* where each thread stands in its operation
  frame,                \* each thread's arguments and locals
  failedPaths           \* history: the files whose parse has failed

varsT == <<translationUnits, tus, libclangLock, pc, frame, failedPaths>>

VARIABLES
  \* ---- what is handed to the editor (getQuickFixList, formatResult)
  diagnostics,          \* tu.diagnostics of the unit a quickfix list is made from
  quickfix,             \* the list getQuickFixList returned
  result,               \* the completion result formatResult is given: result.string
  completion,           \* the dict formatResult returned
  computed              \* which of the two has run

varsO == <<diagnostics, quickfix, result, completion, computed>>

VARIABLES
  \* ---- gotoDeclaration after it has its translation unit
  request,              \* the cursor, the buffer, preview, tu and the cursor's two candidates
  target,               \* loc when the loop over defs has ended
  jump,                 \* what jumpToLocation did to the editor
  gotoDone              \* gotoDeclaration has returned

varsG == <<request, target, jump, gotoDone>>

VARIABLES
  \* ---- the module's globals and what the last public operation ended with
  session,              \* "uninitialised", "loaded" (the globals are bound) or "failed"
  outcome               \* the last operation run to its end: returned or raised what

varsS == <<session, outcome>>

VARIABLES
  \* ---- getCompilationDBParams called by several threads
  rpc,                  \* where each thread stands in getCompilationDBParams
  rframe                \* each thread's fileName, locals and returned value

varsC == <<rpc, rframe>>

vars == <<varsR, varsT, varsO, varsG, varsS, varsC>>

\* Python's None where a str may stand: a sequence no text equals (the
\* characters of a text are one-character strings).
None == <<"None">>

\* ------------------------------------------------------------------ text
\* Python str helpers, on sequences of characters.

startswith(s, p) == Len(s) >= Len(p) /\ SubSeq(s, 1, Len(p)) = p

endswith(s, p) == Len(s) >= Len(p) /\ SubSeq(s, Len(s) - Len(p) + 1, Len(s)) = p

\* s[n:]
sliceFrom(s, n) == SubSeq(s, n + 1, Len(s))

\* s[0:n]
sliceTo(s, n) == SubSeq(s, 1, IF n < Len(s) THEN n ELSE Len(s))

\* p in s
contains(s, p) ==
  \E i \in 0..(Len(s) - Len(p)) : SubSeq(s, i + 1, i + Len(p)) = p

\* decode(value): utf-8 decoding of a bytes value (Python 3), the value itself
\* otherwise.  The model's text is ASCII, whose characters decoding preserves.
decode(value) == value

\* s.split('/')
RECURSIVE splitSlash(_, _, _)
splitSlash(s, i, cur) ==
  IF i > Len(s) THEN <<cur>>
  ELSE IF s[i] = "/" THEN <<cur>> \o splitSlash(s, i + 1, <<>>)
  ELSE splitSlash(s, i + 1, Append(cur, s[i]))

\* '/'.join(comps)
RECURSIVE joinSlash(_)
joinSlash(comps) ==
  IF Len(comps) = 0 THEN <<>>
  ELSE IF Len(comps) = 1 THEN comps[1]
  ELSE comps[1] \o <<"/">> \o joinSlash(Tail(comps))

\* ------------------------------------------------------------------ os.path (posixpath)

isabs(s) == startswith(s, <<"/">>)

\* os.path.join(a, b)
join(a, b) ==
  IF startswith(b, <<"/">>) THEN b
  ELSE IF Len(a) = 0 \/ endswith(a, <<"/">>) THEN a \o b
  ELSE a \o <<"/">> \o b

\* the component loop of posixpath.normpath
RECURSIVE normComps(_, _, _, _)
normComps(comps, i, new_comps, initial_slashes) ==
  IF i > Len(comps) THEN new_comps
  ELSE LET comp == comps[i] IN
    IF comp = <<>> \/ comp = <<".">>
      THEN normComps(comps, i + 1, new_comps, initial_slashes)
    ELSE IF \/ comp /= <<".", ".">>
            \/ (initial_slashes = 0 /\ Len(new_comps) = 0)
            \/ (Len(new_comps) > 0 /\ new_comps[Len(new_comps)] = <<".", ".">>)
      THEN normComps(comps, i + 1, Append(new_comps, comp), initial_slashes)
    ELSE IF Len(new_comps) > 0
      THEN normComps(comps, i + 1, SubSeq(new_comps, 1, Len(new_comps) - 1),
                     initial_slashes)
    ELSE normComps(comps, i + 1, new_comps, initial_slashes)

\* os.path.normpath(path)
normpath(path) ==
  IF Len(path) = 0 THEN <<".">>
  ELSE
    LET initial_slashes ==
          IF ~startswith(path, <<"/">>) THEN 0
          ELSE IF startswith(path, <<"/", "/">>) /\ ~startswith(path, <<"/", "/", "/">>)
            THEN 2
          ELSE 1
        comps == normComps(splitSlash(path, 1, <<>>), 1, <<>>, initial_slashes)
        body == joinSlash(comps)
        out == IF initial_slashes = 2 THEN <<"/", "/">> \o body
               ELSE IF initial_slashes = 1 THEN <<"/">> \o body
               ELSE body
    IN IF Len(out) = 0 THEN <<".">> ELSE out

\* os.getcwd(): the editor process's own working directory
getcwd == <<"/", "w">>

\* os.path.realpath(path) on a file system without symbolic links: the
\* normalised absolute path
realpath(path) == normpath(join(getcwd, path))

\* the last index of character ch in p (0-based), -1 when absent: p.rfind(ch)
rfind(p, ch) ==
  LET hits == {i \in 1..Len(p) : p[i] = ch}
  IN IF hits = {} THEN -1 ELSE (CHOOSE i \in hits : \A j \in hits : j <= i) - 1

\* os.path.splitext(p)[1]
splitext_ext(p) ==
  LET sepIndex == rfind(p, "/")
      dotIndex == rfind(p, ".")
  IN IF /\ dotIndex > sepIndex
        /\ \E k \in (sepIndex + 1)..(dotIndex - 1) : p[k + 1] /= "."
       THEN sliceFrom(p, dotIndex)
       ELSE <<>>

\* ------------------------------------------------------------------ shlex.split
\* What a call yields: a returned value, or the exception it raised.
returned(v) == [raised |-> FALSE, value |-> v]
ValueError == [raised |-> TRUE, value |-> "ValueError"]

whitespace == {" ", "\t", "\r", "\n"}

\* shlex.shlex(s, posix=True).read_token, run over the whole string with
\* whitespace_split on and no comment characters.  state is " " (between
\* tokens), "a" (in a word), a quote character, or "\\" (after an escape).
RECURSIVE shlexRun(_, _, _, _, _, _, _)
shlexRun(s, i, state, escapedstate, token, quoted, out) ==
  IF i > Len(s) THEN
    IF state = "'" \/ state = "\"" \/ state = "\\" THEN ValueError
    ELSE IF state = "a" /\ (token /= <<>> \/ quoted) THEN returned(Append(out, token))
    ELSE returned(out)
  ELSE LET ch == s[i] IN
    IF state = " " THEN
      IF ch \in whitespace THEN shlexRun(s, i + 1, " ", escapedstate, <<>>, FALSE, out)
      ELSE IF ch = "\\" THEN shlexRun(s, i + 1, "\\", "a", <<>>, FALSE, out)
      ELSE IF ch = "'" \/ ch = "\"" THEN shlexRun(s, i + 1, ch, escapedstate, <<>>, TRUE, out)
      ELSE shlexRun(s, i + 1, "a", escapedstate, <<ch>>, FALSE, out)
    ELSE IF state = "'" \/ state = "\"" THEN
      IF ch = state THEN shlexRun(s, i + 1, "a", escapedstate, token, TRUE, out)
      ELSE IF ch = "\\" /\ state = "\"" THEN shlexRun(s, i + 1, "\\", state, token, TRUE, out)
      ELSE shlexRun(s, i + 1, state, escapedstate, Append(token, ch), TRUE, out)
    ELSE IF state = "\\" THEN
      LET kept == IF (escapedstate = "'" \/ escapedstate = "\"")
                     /\ ch /= "\\" /\ ch /= escapedstate
                    THEN Append(token, "\\") ELSE token
      IN shlexRun(s, i + 1, escapedstate, escapedstate, Append(kept, ch), quoted, out)
    ELSE \* state = "a"
      IF ch \in whitespace THEN
        shlexRun(s, i + 1, " ", escapedstate, <<>>, FALSE,
                 IF token /= <<>> \/ quoted THEN Append(out, token) ELSE out)
      ELSE IF ch = "'" \/ ch = "\"" THEN shlexRun(s, i + 1, ch, escapedstate, token, TRUE, out)
      ELSE IF ch = "\\" THEN shlexRun(s, i + 1, "\\", "a", token, quoted, out)
      ELSE shlexRun(s, i + 1, "a", escapedstate, Append(token, ch), quoted, out)

\* splitOptions(options): the list of tokens returned, or the ValueError
\* shlex.split raises
splitOptions(options) == shlexRun(options, 1, " ", "a", <<>>, FALSE, <<>>)

\* ------------------------------------------------------------------ resolver inputs
\* The argument tokens a compile command is built from.
tCC     == <<"c", "c">>
DashC   == <<"-", "c">>
DashO   == <<"-", "o">>
DashI   == <<"-", "I">>
tObj    == <<"a", ".", "o">>
tIrel   == <<"-", "I", ".", ".", "/", "i">>
tSrc    == <<"m", ".", "c">>
tSrcAbs == <<"/", "p", "/", "m", ".", "c">>

Tokens == {tCC, DashC, DashO, DashI, tObj, tIrel, tSrc, tSrcAbs}

\* The longest raw argument list of a compile command.
MaxRawLen == 3

RECURSIVE SeqsUpTo(_, _)
SeqsUpTo(S, n) ==
  IF n = 0 THEN {<<>>}
  ELSE LET shorter == SeqsUpTo(S, n - 1)
       IN shorter \cup {Append(q, x) : q \in {r \in shorter : Len(r) = n - 1}, x \in S}

RawLists == SeqsUpTo(Tokens, MaxRawLen) \ {<<>>}

DirP == <<"/", "p">>
DirQ == <<"/", "q", "/", "r">>
Dirs == {DirP, DirQ}

\* The files the editor has buffers for.
MainC  == tSrcAbs
OtherC == <<"/", "q", "/", "n", ".", "c">>
HdrH   == <<"/", "p", "/", "h", ".", "h">>
Files  == {MainC, OtherC, HdrH}

\* g:clang_user_options and b:clang_user_options, as the user wrote them
optNone     == <<>>
optDashC    == <<"-", "c", " ", "'", "-", "D", " ", "U", "'">>
optUnclosed == <<"-", "W", " ", "'", "u">>
optW        == <<"-", "w">>
GlobalOptions == {optNone, optDashC, optUnclosed}
BufferOptions == {optNone, optW}

\* &filetype of the buffer
ftC      == <<"c">>
ftObjCpp == <<"o", "b", "j", "c", "p", "p">>
Filetypes == {ftC, ftObjCpp}

BuiltinPath == <<"/", "b">>

\* ------------------------------------------------------------------ getCompilationDBParams
\* compilation_database.getCompileCommands(fileName): the commands of the
\* file, None when the database has none for it.
NoCmds == [found |-> FALSE]
Cmds(directory, arguments) ==
  [found |-> TRUE, directory |-> directory, arguments |-> arguments]

\* compilation_database = None
NoDatabase == [configured |-> FALSE]
\* compilation_database = CompilationDatabase.fromDirectory(...)
Database(commands) == [configured |-> TRUE, commands |-> commands]

getCompileCommands(db, fileName) == db.commands[fileName]

\* (mutant) the '-I' argument is passed on as it stands
rewriteIncludeUnchanged(arg, cwd) == arg

\* One '-I' argument: its path made absolute against cwd.
rewriteInclude(arg, cwd) ==
  LET includePath == sliceFrom(arg, 2)
  IN IF ~isabs(includePath)
       THEN DashI \o normpath(join(cwd, includePath))
       ELSE DashI \o includePath

\* (mutant) only the literal file name is recognised
isInputFileLiteral(arg, cwd, fileName) == arg = fileName

\* arg names the file being compiled
isInputFile(arg, cwd, fileName) ==
  arg = fileName \/ realpath(join(cwd, arg)) = fileName

\* The loop over cmds[0].arguments, from position i on.
RECURSIVE filterArguments(_, _, _, _, _, _)
filterArguments(raw, i, skip_next, args, cwd, fileName) ==
  IF i > Len(raw) THEN args
  ELSE LET arg == decode(raw[i]) IN
    IF skip_next = 1 THEN filterArguments(raw, i + 1, 0, args, cwd, fileName)
    ELSE IF arg = DashC THEN filterArguments(raw, i + 1, 0, args, cwd, fileName)
    ELSE IF isInputFile(arg, cwd, fileName)
      THEN filterArguments(raw, i + 1, 0, args, cwd, fileName)
    ELSE IF arg = DashO THEN filterArguments(raw, i + 1, 1, args, cwd, fileName)
    ELSE IF startswith(arg, DashI)
      THEN filterArguments(raw, i + 1, 0, Append(args, rewriteInclude(arg, cwd)),
                           cwd, fileName)
    ELSE filterArguments(raw, i + 1, 0, Append(args, arg), cwd, fileName)

\* The list objects of the model: the one last_query holds and the one a call
\* hands to its caller.
Stored == "stored"
Copy   == "copy"

\* (mutant) the stored list itself is returned
queryAlias(h, query) ==
  [heap |-> h, ret |-> [args |-> query.args, cwd |-> query.cwd]]

\* The value returned from last_query: a new list with the elements of the
\* stored one.
queryCopy(h, query) ==
  [heap |-> [h EXCEPT ![Copy] = h[query.args]],
   ret  |-> [args |-> Copy, cwd |-> query.cwd]]

\* Whether the lookup of fileName succeeds.
lookupHits(db, fileName) ==
  db.configured /\ getCompileCommands(db, fileName).found

\* (mutant) the working directory of the first hit is kept for good
queryAfterLookupKeepsCwd(db, fileName, query) ==
  IF lookupHits(db, fileName)
    THEN [args |-> Stored,
          cwd  |-> IF query.cwd = None
                     THEN decode(getCompileCommands(db, fileName).directory)
                     ELSE query.cwd]
    ELSE query

\* last_query after the lookup: replaced on a hit, kept otherwise.
queryAfterLookup(db, fileName, query) ==
  IF lookupHits(db, fileName)
    THEN [args |-> Stored, cwd |-> decode(getCompileCommands(db, fileName).directory)]
    ELSE query

\* (mutant) a failed lookup clears the remembered arguments
storedClearedOnMiss(db, fileName, h) ==
  IF db.configured /\ getCompileCommands(db, fileName).found
    THEN LET cmd == getCompileCommands(db, fileName)
         IN filterArguments(cmd.arguments, 1, 1, <<>>, decode(cmd.directory), fileName)
    ELSE <<>>

\* The stored list after the lookup.
storedAfterLookup(db, fileName, h) ==
  IF lookupHits(db, fileName)
    THEN LET cmd == getCompileCommands(db, fileName)
         IN filterArguments(cmd.arguments, 1, 1, <<>>, decode(cmd.directory), fileName)
    ELSE h[Stored]

\* getCompilationDBParams(fileName): the new last_query, the new heap and the
\* returned {args, cwd}.
getCompilationDBParams(db, fileName, query, h) ==
  LET q1 == queryAfterLookup(db, fileName, query)
      h1 == [h EXCEPT ![Stored] = storedAfterLookup(db, fileName, h)]
      r  == queryCopy(h1, q1)
  IN [last_query |-> q1, heap |-> r.heap, ret |-> r.ret]

\* ------------------------------------------------------------------ getCompilationDBParams, step by step
\* getCompilationDBParams runs outside libclangLock (updateCurrentDiagnostics
\* and gotoDeclaration call getCompileParams before they take it), so its
\* statements interleave between threads.
IdleCall ==
  [fileName |-> None, args |-> <<>>, cwd |-> None,
   query |-> [args |-> <<>>, cwd |-> None],
   ret |-> [args |-> <<>>, cwd |-> None], done |-> FALSE]

\* `query = getCompilationDBParams.last_query`: the dict bound at that moment
\* (dicts and lists are not changed once they are bound there)
queryRead(t) == [args |-> heap[last_query.args], cwd |-> last_query.cwd]

\* A thread calls getCompilationDBParams(fileName).
CallDB(t, fileName) ==
  /\ rpc[t] = "idle"
  /\ rframe' = [rframe EXCEPT ![t] = [IdleCall EXCEPT !.fileName = fileName]]
  /\ rpc' = [rpc EXCEPT ![t] = "lookup"]
  /\ UNCHANGED <<varsR, varsT, varsO, varsG, varsS>>

\* The lookup and, on a hit, the loop that builds the locals args and cwd.
LookupDB(t) ==
  /\ rpc[t] = "lookup"
  /\ IF lookupHits(compilation_database, rframe[t].fileName)
       THEN LET cmd == getCompileCommands(compilation_database, rframe[t].fileName)
            IN /\ rframe' = [rframe EXCEPT
                    ![t].cwd = decode(cmd.directory),
                    ![t].args = filterArguments(cmd.arguments, 1, 1, <<>>,
                                                decode(cmd.directory),
                                                rframe[t].fileName)]
               /\ rpc' = [rpc EXCEPT ![t] = "assign"]
       ELSE /\ rpc' = [rpc EXCEPT ![t] = "read"]
            /\ UNCHANGED rframe
  /\ UNCHANGED <<varsR, varsT, varsO, varsG, varsS>>

\* getCompilationDBParams.last_query = { 'args': args, 'cwd': cwd }
AssignQuery(t) ==
  /\ rpc[t] = "assign"
  /\ last_query' = [args |-> Stored, cwd |-> rframe[t].cwd]
  /\ heap' = [heap EXCEPT ![Stored] = rframe[t].args]
  /\ rpc' = [rpc EXCEPT ![t] = "read"]
  /\ UNCHANGED <<compilation_database, builtinHeaderPath, dbParams, params,
                 call, lastHit, rframe, varsT, varsO, varsG, varsS>>

\* query = getCompilationDBParams.last_query
ReadQuery(t) ==
  /\ rpc[t] = "read"
  /\ rframe' = [rframe EXCEPT ![t].query = queryRead(t)]
  /\ rpc' = [rpc EXCEPT ![t] = "copy"]
  /\ UNCHANGED <<varsR, varsT, varsO, varsG, varsS>>

\* return { 'args': list(query['args']), 'cwd': query['cwd'] }
ReturnCopy(t) ==
  /\ rpc[t] = "copy"
  /\ rframe' = [rframe EXCEPT ![t].ret = rframe[t].query, ![t].done = TRUE]
  /\ rpc' = [rpc EXCEPT ![t] = "idle"]
  /\ UNCHANGED <<varsR, varsT, varsO, varsG, varsS>>

\* ------------------------------------------------------------------ getCompileParams
\* (mutant) the file's extension is not looked at
ftypeParamNeverHeader(fileName, filetype) ==
  IF contains(filetype, <<"o", "b", "j", "c">>)
    THEN <<"-", "x", " ", "o", "b", "j", "e", "c", "t", "i", "v", "e", "-", "c">>
    ELSE <<"-", "x", " ", "c">>

\* The '-x ...' language selection of a buffer.
ftypeParam(fileName, filetype) ==
  LET base == IF contains(filetype, <<"o", "b", "j", "c">>)
                THEN <<"-", "x", " ", "o", "b", "j", "e", "c", "t", "i", "v", "e", "-", "c">>
                ELSE <<"-", "x", " ", "c">>
      plus == IF \/ filetype = <<"c", "p", "p">>
                 \/ filetype = <<"o", "b", "j", "c", "p", "p">>
                 \/ sliceTo(filetype, 3) = <<"c", "p", "p">>
                 \/ sliceTo(filetype, 6) = <<"o", "b", "j", "c", "p", "p">>
                THEN base \o <<"+", "+">> ELSE base
      ext  == splitext_ext(fileName)
  IN IF contains(ext, <<"h">>)
       THEN plus \o <<"-", "h", "e", "a", "d", "e", "r">>
       ELSE plus

\* `if builtinHeaderPath:`
truthy(path) == path /= None /\ path /= <<>>

\* (mutant) the builtin include is put before the language selection
tailArgumentsBuiltinFirst(fileName, filetype, builtin) ==
  (IF truthy(builtin) THEN <<DashI \o builtin>> ELSE <<>>)
    \o splitOptions(ftypeParam(fileName, filetype)).value

\* The arguments appended after the user options: the language selection and
\* the builtin include.
tailArguments(fileName, filetype, builtin) ==
  splitOptions(ftypeParam(fileName, filetype)).value
    \o (IF truthy(builtin) THEN <<DashI \o builtin>> ELSE <<>>)

\* getCompileParams(fileName) of a buffer with the given filetype, while
\* g:clang_user_options = g and b:clang_user_options = b.  ret is the returned
\* {args, cwd}, or ValueError when shlex.split raises on a user option.
getCompileParams(db, builtin, fileName, filetype, g, b, query, h) ==
  LET r0    == getCompilationDBParams(db, fileName, query, h)
      args  == r0.ret.args
      gs    == splitOptions(g)
      bs    == splitOptions(b)
      h1    == IF gs.raised THEN r0.heap
               ELSE [r0.heap EXCEPT ![args] = @ \o gs.value]
      h2    == IF gs.raised \/ bs.raised THEN h1
               ELSE [h1 EXCEPT ![args] =
                       @ \o bs.value \o tailArguments(fileName, filetype, builtin)]
  IN [last_query |-> r0.last_query,
      heap       |-> h2,
      dbParams   |-> [args |-> r0.heap[args], cwd |-> r0.ret.cwd],
      ret        |-> IF gs.raised \/ bs.raised THEN ValueError
                     ELSE returned([args |-> args, cwd |-> r0.ret.cwd])]

\* A caller resolves the compile parameters of a buffer.
GetCompileParams(fileName, filetype, g, b) ==
  \E r \in {getCompileParams(compilation_database, builtinHeaderPath, fileName,
                              filetype, g, b, last_query, heap)} :
     /\ last_query' = r.last_query
     /\ heap' = r.heap
     /\ dbParams' = r.dbParams
     /\ params' = r.ret
     /\ call' = [fileName |-> fileName, filetype |-> filetype, g |-> g, b |-> b]
     /\ lastHit' = IF lookupHits(compilation_database, fileName)
                     THEN fileName ELSE lastHit
     /\ UNCHANGED <<compilation_database, builtinHeaderPath, varsT, varsO, varsG, varsS, varsC>>

NoParams == [raised |-> FALSE, value |-> [args |-> Copy, cwd |-> None]]
NoCall == [fileName |-> None, filetype |-> None, g |-> None, b |-> None]


\* ------------------------------------------------------------------ translation units
Threads == {"t1", "t2"}

\* The buffer texts and the argument lists a request carries.
Contents == {"v1", "v2"}
ArgLists == {"a1", "a2"}
UnitFiles == {MainC}

\* The most TranslationUnit objects the index creates (a parse fails beyond).
MaxUnits == 2

NoTU == 0
Free == "free"

\* The public operations: updateCurrentDiagnostics, gotoDeclaration,
\* getCurrentCompletionResults, getCurrentQuickFixList,
\* highlightCurrentDiagnostics.
Operations == {"updateCurrentDiagnostics", "gotoDeclaration",
               "getCurrentCompletionResults", "getCurrentQuickFixList",
               "highlightCurrentDiagnostics"}

\* `with libclangLock:` around the body of the operation
takesLock(op) == op \in {"updateCurrentDiagnostics", "gotoDeclaration"}

\* the update argument the operation passes to getCurrentTranslationUnit
updateFlag(op) == op \in {"updateCurrentDiagnostics", "gotoDeclaration"}

\* the operations that go through getCurrentTranslationUnit
usesGetCurrent(op) == op \in {"updateCurrentDiagnostics", "gotoDeclaration",
                              "getCurrentCompletionResults"}

IdleFrame ==
  [op |-> "none", fileName |-> MainC, currentFile |-> "v1", args |-> "a1",
   update |-> FALSE, tu |-> NoTU, retry |-> FALSE, parses |-> 0, reparses |-> 0]

\* index.parse(fileName, args, [currentFile], flags): the new TranslationUnit
parse(fileName, args, currentFile) ==
  [fileName |-> fileName, args |-> args, content |-> currentFile]

\* tu.reparse([currentFile])
reparse(unit, currentFile) == [unit EXCEPT !.content = currentFile]

\* (mutant) the cached unit is reparsed whatever update says
pcAfterLookupAlwaysReparse(tu, update) ==
  IF tu /= NoTU THEN "reparse" ELSE "parse"

\* (mutant) a cached unit is parsed anew
pcAfterLookupAlwaysParse(tu, update) == "parse"

\* getCurrentTranslationUnit after `tu = translationUnits.get(fileName)`
pcAfterLookup(tu, update) ==
  IF tu /= NoTU THEN (IF update THEN "reparse" ELSE "ret") ELSE "parse"

\* (mutant) a failed parse is tried again
pcRetryAfterParseFailure == "parse"

\* `except TranslationUnitLoadError: return None`
pcAfterParseFailure == "ret"

\* (mutant) the new unit is returned without the reparse
pcAfterStoreNoReparse == "ret"

\* after `translationUnits[fileName] = tu`: the reparse that fills the PCH cache
pcAfterStore == "reparse"

\* The thread is inside a libclang call on the index or a translation unit.
InEngine(t) == pc[t] \in {"in_parse", "in_reparse", "in_use"}

\* A thread enters a public operation; the ones under `with libclangLock`
\* enter once they hold the lock.
Start(t, op, fileName, currentFile, args) ==
  /\ pc[t] = "idle"
  /\ IF takesLock(op)
       THEN libclangLock = Free /\ libclangLock' = t
       ELSE UNCHANGED libclangLock
  /\ frame' = [frame EXCEPT ![t] =
       IF usesGetCurrent(op)
         THEN [IdleFrame EXCEPT !.op = op, !.fileName = fileName,
                                !.currentFile = currentFile, !.args = args,
                                !.update = updateFlag(op)]
         ELSE [IdleFrame EXCEPT !.op = op, !.fileName = fileName]]
  /\ pc' = [pc EXCEPT ![t] = IF usesGetCurrent(op) THEN "get" ELSE "lookup"]
  /\ UNCHANGED <<translationUnits, tus, failedPaths, varsR, varsO, varsG, varsS, varsC>>

\* tu = translationUnits.get(fileName)
Get(t) ==
  /\ pc[t] = "get"
  /\ LET tu == translationUnits[frame[t].fileName]
     IN /\ frame' = [frame EXCEPT ![t].tu = tu,
                                  ![t].retry = (frame[t].fileName \in failedPaths)]
        /\ pc' = [pc EXCEPT ![t] = pcAfterLookup(tu, frame[t].update)]
  /\ UNCHANGED <<translationUnits, tus, libclangLock, failedPaths, varsR, varsO, varsG, varsS, varsC>>

\* index.parse(...) is called
EnterParse(t) ==
  /\ pc[t] = "parse"
  /\ pc' = [pc EXCEPT ![t] = "in_parse"]
  /\ frame' = [frame EXCEPT ![t].parses = @ + 1]
  /\ UNCHANGED <<translationUnits, tus, libclangLock, failedPaths, varsR, varsO, varsG, varsS, varsC>>

\* index.parse(...) returns a new TranslationUnit
ParseReturns(t) ==
  /\ pc[t] = "in_parse"
  /\ Len(tus) < MaxUnits
  /\ tus' = Append(tus, parse(frame[t].fileName, frame[t].args, frame[t].currentFile))
  /\ frame' = [frame EXCEPT ![t].tu = Len(tus) + 1]
  /\ pc' = [pc EXCEPT ![t] = "store"]
  /\ UNCHANGED <<translationUnits, libclangLock, failedPaths, varsR, varsO, varsG, varsS, varsC>>

\* index.parse(...) raises TranslationUnitLoadError
ParseRaises(t) ==
  /\ pc[t] = "in_parse"
  /\ frame' = [frame EXCEPT ![t].tu = NoTU]
  /\ failedPaths' = failedPaths \cup {frame[t].fileName}
  /\ pc' = [pc EXCEPT ![t] = pcAfterParseFailure]
  /\ UNCHANGED <<translationUnits, tus, libclangLock, varsR, varsO, varsG, varsS, varsC>>

\* translationUnits[fileName] = tu
Store(t) ==
  /\ pc[t] = "store"
  /\ translationUnits' = [translationUnits EXCEPT ![frame[t].fileName] = frame[t].tu]
  /\ pc' = [pc EXCEPT ![t] = pcAfterStore]
  /\ UNCHANGED <<tus, libclangLock, frame, failedPaths, varsR, varsO, varsG, varsS, varsC>>

\* tu.reparse([currentFile]) is called
EnterReparse(t) ==
  /\ pc[t] = "reparse"
  /\ pc' = [pc EXCEPT ![t] = "in_reparse"]
  /\ frame' = [frame EXCEPT ![t].reparses = @ + 1]
  /\ UNCHANGED <<translationUnits, tus, libclangLock, failedPaths, varsR, varsO, varsG, varsS, varsC>>

\* tu.reparse([currentFile]) returns
ReparseReturns(t) ==
  /\ pc[t] = "in_reparse"
  /\ tus' = [tus EXCEPT ![frame[t].tu] = reparse(@, frame[t].currentFile)]
  /\ pc' = [pc EXCEPT ![t] = "ret"]
  /\ UNCHANGED <<translationUnits, libclangLock, frame, failedPaths, varsR, varsO, varsG, varsS, varsC>>

\* getCurrentTranslationUnit returns tu to the operation, which goes on:
\* updateCurrentDiagnostics leaves the with block, gotoDeclaration and
\* getCurrentCompletionResults return when tu is None and use it otherwise.
Return(t) ==
  /\ pc[t] = "ret"
  /\ LET op == frame[t].op
         next == IF op = "updateCurrentDiagnostics" THEN "unlock"
                 ELSE IF frame[t].tu /= NoTU THEN "use"
                 ELSE IF takesLock(op) THEN "unlock"
                 ELSE "idle"
     IN /\ pc' = [pc EXCEPT ![t] = next]
        /\ frame' = [frame EXCEPT ![t] = IF next = "idle" THEN IdleFrame ELSE @]
  /\ UNCHANGED <<translationUnits, tus, libclangLock, failedPaths, varsR, varsO, varsG, varsS, varsC>>

\* getCurrentQuickFixList / highlightCurrentDiagnostics:
\* `if vim.current.buffer.name in translationUnits`
Lookup(t) ==
  /\ pc[t] = "lookup"
  /\ LET tu == translationUnits[frame[t].fileName]
     IN IF tu /= NoTU
          THEN /\ frame' = [frame EXCEPT ![t].tu = tu]
               /\ pc' = [pc EXCEPT ![t] = "use"]
          ELSE /\ frame' = [frame EXCEPT ![t] = IdleFrame]
               /\ pc' = [pc EXCEPT ![t] = "idle"]
  /\ UNCHANGED <<translationUnits, tus, libclangLock, failedPaths, varsR, varsO, varsG, varsS, varsC>>

\* The operation calls into its translation unit: tu.codeComplete,
\* tu.diagnostics, Cursor.from_location and the cursor's definition.
EnterUse(t) ==
  /\ pc[t] = "use"
  /\ pc' = [pc EXCEPT ![t] = "in_use"]
  /\ UNCHANGED <<translationUnits, tus, libclangLock, frame, failedPaths, varsR, varsO, varsG, varsS, varsC>>

\* That call returns; an operation without the lock is finished.
UseReturns(t) ==
  /\ pc[t] = "in_use"
  /\ IF takesLock(frame[t].op)
       THEN /\ pc' = [pc EXCEPT ![t] = "unlock"]
            /\ UNCHANGED frame
       ELSE /\ pc' = [pc EXCEPT ![t] = "idle"]
            /\ frame' = [frame EXCEPT ![t] = IdleFrame]
  /\ UNCHANGED <<translationUnits, tus, libclangLock, failedPaths, varsR, varsO, varsG, varsS, varsC>>

\* The with block is left: the lock is released and the operation returns.
Unlock(t) ==
  /\ pc[t] = "unlock"
  /\ libclangLock' = Free
  /\ pc' = [pc EXCEPT ![t] = "idle"]
  /\ frame' = [frame EXCEPT ![t] = IdleFrame]
  /\ UNCHANGED <<translationUnits, tus, failedPaths, varsR, varsO, varsG, varsS, varsC>>

\* The state initClangComplete leaves: an empty mapping and a free lock.
InitUnits ==
  /\ translationUnits = [f \in UnitFiles |-> NoTU]
  /\ tus = <<>>
  /\ libclangLock = Free
  /\ pc = [t \in Threads |-> "idle"]
  /\ frame = [t \in Threads |-> IdleFrame]
  /\ failedPaths = {}


\* ------------------------------------------------------------------ getQuickFixList
\* diagnostic.severity, as clang.cindex.Diagnostic numbers it
Ignored == 0
Note    == 1
Warning == 2
Error   == 3
Fatal   == 4

\* A diagnostic text is modelled as a sequence of pieces; the phrase the
\* filter looks for is one piece, so `phrase in text` is contains().
unusedPhrase == <<"argument unused during compilation">>

\* diagnostic.location.file: None, or a File with a name
NoFile == [present |-> FALSE, name |-> ""]
File(name) == [present |-> TRUE, name |-> name]

\* vim's bufnr(filename, 1): the number of the buffer of that name, which vim
\* creates when there is none.  The number is kept as the expression.
bufnr(filename) == <<"bufnr", filename, "1">>

\* what getQuickFix returns for a diagnostic it drops
NoQuickFix == [dropped |-> TRUE]

\* (mutant) warnings are kept whatever their text
quickFixTypeKeepsUnused(severity, spelling) ==
  IF severity = Ignored THEN "I"
  ELSE IF severity = Note THEN "I"
  ELSE IF severity = Warning THEN "W"
  ELSE IF severity = Error THEN "E"
  ELSE IF severity = Fatal THEN "E"
  ELSE "None"

\* the type letter of a diagnostic, "None" where getQuickFix returns None
quickFixType(severity, spelling) ==
  IF severity = Ignored THEN "I"
  ELSE IF severity = Note THEN "I"
  ELSE IF severity = Warning
    THEN (IF contains(decode(spelling), unusedPhrase) THEN "None" ELSE "W")
  ELSE IF severity = Error THEN "E"
  ELSE IF severity = Fatal THEN "E"
  ELSE "None"

\* getQuickFix(diagnostic)
getQuickFix(diagnostic) ==
  LET filename == IF diagnostic.location.file.present
                    THEN decode(diagnostic.location.file.name)
                    ELSE ""
      type == quickFixType(diagnostic.severity, diagnostic.spelling)
  IN IF type = "None" THEN NoQuickFix
     ELSE [dropped |-> FALSE,
           bufnr |-> bufnr(filename),
           lnum  |-> diagnostic.location.line,
           col   |-> diagnostic.location.column,
           text  |-> decode(diagnostic.spelling),
           type  |-> type]

\* getQuickFixList(tu): [_f for _f in map(getQuickFix, tu.diagnostics) if _f]
RECURSIVE getQuickFixList(_)
getQuickFixList(diags) ==
  IF Len(diags) = 0 THEN <<>>
  ELSE LET f == getQuickFix(Head(diags))
       IN (IF f.dropped THEN <<>> ELSE <<f>>) \o getQuickFixList(Tail(diags))

\* The quickfix list of a translation unit is asked for.
GetQuickFixList ==
  /\ computed = "none"
  /\ quickfix' = getQuickFixList(diagnostics)
  /\ computed' = "quickfix"
  /\ UNCHANGED <<diagnostics, result, completion, varsR, varsT, varsG, varsS, varsC>>

\* The diagnostics the engine reports: every severity (one value outside the
\* five known ones), with and without a file, three texts and two places.
OtherSeverity == 5
Severities == {Ignored, Note, Warning, Error, Fatal, OtherSeverity}
Spellings == {<<"unused variable 'x'">>,
              <<"warning: ", "argument unused during compilation", ": '-c'">>}
Places == {[file |-> File("/p/m.c"), line |-> 3, column |-> 7],
           [file |-> NoFile, line |-> 0, column |-> 0]}
Diagnostics ==
  {[severity |-> sv, spelling |-> sp, location |-> pl] :
     sv \in Severities, sp \in Spellings, pl \in Places}

\* The most diagnostics of a translation unit.
MaxDiagnostics == 2


\* ------------------------------------------------------------------ how an operation ends
NoOutcome == [op |-> "none", raised |-> FALSE, value |-> "None"]
Returned(op, value) == [op |-> op, raised |-> FALSE, value |-> value]
Raised(op, exception) == [op |-> op, raised |-> TRUE, value |-> exception]

\* initClangComplete has bound the globals and no operation has ended.
InitLoaded ==
  /\ session = "loaded"
  /\ outcome = NoOutcome

\* ------------------------------------------------------------------ gotoDeclaration
\* loc.file: None, or a File with its name
NoLocFile == [present |-> FALSE, name |-> <<>>]
LocFile(name) == [present |-> TRUE, name |-> name]

\* A SourceLocation
SourceLocation(file, line, column) == [file |-> file, line |-> line, column |-> column]

\* cursor.get_definition() / cursor.referenced: None, or a cursor with its location
NoCursor == [null |-> TRUE, location |-> SourceLocation(NoLocFile, 0, 0)]
Cursor(location) == [null |-> FALSE, location |-> location]

\* filename.replace(" ", "\\ ")
RECURSIVE escapeSpaces(_)
escapeSpaces(filename) ==
  IF Len(filename) = 0 THEN <<>>
  ELSE (IF Head(filename) = " " THEN <<"\\", " ">> ELSE <<Head(filename)>>)
         \o escapeSpaces(Tail(filename))

NoJump == [called |-> FALSE, command |-> <<>>, moved |-> FALSE, cursor |-> <<0, 0>>]

\* jumpToLocation(filename, line, column, preview); raises tells whether
\* vim.command raises
jumpToLocation(filename, line, column, preview, bufferName, raises) ==
  LET filenameEscaped == escapeSpaces(decode(filename))
      command == IF preview THEN <<"pedit", line, filenameEscaped>>
                 ELSE IF filename /= bufferName THEN <<"edit", filenameEscaped>>
                 ELSE <<"normal! m'">>
  IN [called  |-> TRUE,
      command |-> command,
      moved   |-> ~raises /\ ~preview,
      cursor  |-> IF ~raises /\ ~preview THEN <<line, column - 1>> ELSE <<0, 0>>]

NoTarget == [found |-> FALSE, location |-> SourceLocation(NoLocFile, 0, 0)]
Target(location) == [found |-> TRUE, location |-> location]

\* (mutant) a candidate at the query location is taken too
takesCandidateAnywhere(d, loc) == ~d.null

\* `if d is not None and loc != d.location`
takesCandidate(d, loc) == ~d.null /\ loc /= d.location

\* `for d in defs:` from position i on, up to its break
RECURSIVE firstDef(_, _, _)
firstDef(defs, i, loc) ==
  IF i > Len(defs) THEN NoTarget
  ELSE IF takesCandidate(defs[i], loc) THEN Target(defs[i].location)
  ELSE firstDef(defs, i + 1, loc)

\* gotoDeclaration from the return of getCurrentTranslationUnit on
gotoDeclaration(req, raises) ==
  IF ~req.tu THEN [target |-> NoTarget, jump |-> NoJump]
  ELSE
    LET f    == LocFile(req.bufferName)
        loc  == SourceLocation(f, req.line, req.col + 1)
        defs == <<req.definition, req.referenced>>
        t    == firstDef(defs, 1, loc)
    IN [target |-> t,
        jump   |-> IF t.found /\ t.location.file.present
                     THEN jumpToLocation(t.location.file.name, t.location.line,
                                         t.location.column, req.preview,
                                         req.bufferName, raises)
                     ELSE NoJump]

\* gotoDeclaration runs to its end.
GotoDeclaration ==
  /\ ~gotoDone
  /\ \E raises \in BOOLEAN :
       LET r == gotoDeclaration(request, raises)
       IN target' = r.target /\ jump' = r.jump
  /\ gotoDone' = TRUE
  /\ UNCHANGED <<request, varsR, varsT, varsO, varsS, varsC>>

\* The buffer and another file, whose name has a space.
BufferName == <<"/", "m", ".", "c">>
OtherName  == <<"/", "a", " ", "h">>

\* The lines and columns of the candidates' locations.
MaxLine == 2
MaxColumn == 2

Locations ==
  {SourceLocation(f, l, c) :
     f \in {NoLocFile, LocFile(BufferName), LocFile(OtherName)},
     l \in 1..MaxLine, c \in 1..MaxColumn}

Candidates == {NoCursor} \cup {Cursor(l) : l \in Locations}

Requests ==
  [bufferName : {BufferName}, line : 1..MaxLine, col : 0..(MaxColumn - 1),
   preview : BOOLEAN, tu : BOOLEAN,
   definition : Candidates, referenced : Candidates]

IdleRequest ==
  [bufferName |-> BufferName, line |-> 1, col |-> 0, preview |-> FALSE,
   tu |-> FALSE, definition |-> NoCursor, referenced |-> NoCursor]

\* No declaration has been asked for.
InitGoto ==
  /\ request = IdleRequest
  /\ target = NoTarget
  /\ jump = NoJump
  /\ gotoDone = FALSE

\* ------------------------------------------------------------------ formatResult
\* A chunk of a completion string: its kind, its spelling and, for an
\* optional chunk, the chunks nested in it (chunk.string).
Chunk(kind, spelling, string) ==
  [kind |-> kind, spelling |-> spelling, string |-> string]

isKindInformative(chunk) == chunk.kind = "Informative"
isKindResultType(chunk)  == chunk.kind = "ResultType"
isKindTypedText(chunk)   == chunk.kind = "TypedText"
isKindOptional(chunk)    == chunk.kind = "Optional"
isKindPlaceHolder(chunk) == chunk.kind = "Placeholder"

\* kinds[result.cursorKind]: the entry of the kinds table for the cursor kind
kinds(cursorKind) == <<"kinds", cursorKind>>

\* roll_out_optional(chunks): the loop from position i on, word and result
\* being its locals
RECURSIVE roll_out_optional(_, _, _, _)
roll_out_optional(chunks, i, word, res) ==
  IF i > Len(chunks) THEN <<word>> \o res
  ELSE LET chunk == chunks[i] IN
    IF isKindInformative(chunk) \/ isKindResultType(chunk) \/ isKindTypedText(chunk)
      THEN roll_out_optional(chunks, i + 1, word, res)
    ELSE roll_out_optional(chunks, i + 1, word \o decode(chunk.spelling),
           IF isKindOptional(chunk)
             THEN res \o roll_out_optional(chunk.string, 1, <<>>, <<>>)
             ELSE res)

\* (mutant) only the outer level of an optional chunk is marked
optionalInfoOuterOnly(args) ==
  IF Len(args) = 0 THEN <<>> ELSE Head(args) \o <<"=", "?">>

\* what one optional chunk adds to info: optional_arg + "=?" for each
\* rolled-out string
RECURSIVE optionalInfo(_)
optionalInfo(args) ==
  IF Len(args) = 0 THEN <<>>
  ELSE Head(args) \o <<"=", "?">> \o optionalInfo(Tail(args))

NoReturnValue == [present |-> FALSE, spelling |-> <<>>]

\* (mutant) the result type is put before the info without a space
menuTextNoSpace(returnValue, info) ==
  IF returnValue.present THEN decode(returnValue.spelling) \o info ELSE info

\* menu: info after the result type, when there is one
menuText(returnValue, info) ==
  IF returnValue.present
    THEN decode(returnValue.spelling) \o <<" ">> \o info
    ELSE info

\* The loop of formatResult over result.string from position i on; abbr,
\* info and returnValue are its locals.  (The local `word` is built and never
\* read: completion['word'] is abbr.)
RECURSIVE formatChunks(_, _, _, _, _)
formatChunks(chunks, i, abbr, info, returnValue) ==
  IF i > Len(chunks) THEN [abbr |-> abbr, info |-> info, returnValue |-> returnValue]
  ELSE LET chunk == chunks[i] IN
    IF isKindInformative(chunk)
      THEN formatChunks(chunks, i + 1, abbr, info, returnValue)
    ELSE IF isKindResultType(chunk)
      THEN formatChunks(chunks, i + 1, abbr, info,
                        [present |-> TRUE, spelling |-> chunk.spelling])
    ELSE
      LET chunk_spelling == decode(chunk.spelling)
          abbr1 == IF isKindTypedText(chunk) THEN chunk_spelling ELSE abbr
          info1 == IF isKindOptional(chunk)
                     THEN info \o optionalInfo(
                                    roll_out_optional(chunk.string, 1, <<>>, <<>>))
                     ELSE info
      IN formatChunks(chunks, i + 1, abbr1, info1 \o chunk_spelling, returnValue)

\* formatResult(result)
formatResult(res) ==
  LET r == formatChunks(res.string, 1, <<>>, <<>>, NoReturnValue)
  IN [word |-> r.abbr,
      abbr |-> r.abbr,
      menu |-> menuText(r.returnValue, r.info),
      info |-> r.info,
      dup  |-> 1,
      kind |-> kinds(res.cursorKind)]

\* A completion result is formatted.
FormatResult ==
  /\ computed = "none"
  /\ completion' = formatResult(result)
  /\ computed' = "completion"
  /\ UNCHANGED <<diagnostics, quickfix, result, varsR, varsT, varsG, varsS, varsC>>

\* The chunks the engine reports.
cTyped  == Chunk("TypedText", <<"f", "o", "o">>, <<>>)
cResult == Chunk("ResultType", <<"i", "n", "t">>, <<>>)
cInform == Chunk("Informative", <<"n", "s", ":", ":">>, <<>>)
cParen  == Chunk("LeftParen", <<"(">>, <<>>)
cHolder == Chunk("Placeholder", <<"x">>, <<>>)
cComma  == Chunk("Comma", <<",">>, <<>>)
cInner  == Chunk("Placeholder", <<"y">>, <<>>)
cDeep   == Chunk("Optional", <<>>, <<cComma, Chunk("Placeholder", <<"z">>, <<>>)>>)
cOptY   == Chunk("Optional", <<>>, <<cInner>>)
cOptYZ  == Chunk("Optional", <<>>, <<cComma, cInner, cInform, cDeep>>)
cOptT   == Chunk("Optional", <<>>, <<Chunk("TypedText", <<"t">>, <<>>)>>)
Chunks  == {cTyped, cResult, cInform, cParen, cHolder, cOptY, cOptYZ, cOptT}

\* The most chunks of a completion string.
MaxChunks == 4

NoCompletion ==
  [word |-> <<>>, abbr |-> <<>>, menu |-> <<>>, info |-> <<>>, dup |-> 0,
   kind |-> <<>>]

\* Nothing has been handed to the editor.
InitOutput ==
  /\ diagnostics = <<>>
  /\ quickfix = <<>>
  /\ result = [string |-> <<>>, cursorKind |-> "FUNCTION_DECL"]
  /\ completion = NoCompletion
  /\ computed = "none"
  /\ InitGoto

\* The state after `getCompilationDBParams.last_query = { 'args': [], 'cwd': None }`
InitResolver ==
  /\ rpc = [t \in Threads |-> "idle"]
  /\ rframe = [t \in Threads |-> IdleCall]
  /\ last_query = [args |-> Stored, cwd |-> None]
  /\ heap = [o \in {Stored, Copy} |-> <<>>]
  /\ dbParams = [args |-> <<>>, cwd |-> None]
  /\ params = NoParams
  /\ call = NoCall
  /\ lastHit = None

\* One file with a compile command, drawn from every raw argument list and
\* working directory; the header has none.
InitArgs ==
  /\ compilation_database \in
       {Database([f \in Files |-> IF f = MainC THEN Cmds(d, a) ELSE NoCmds]) :
          d \in Dirs, a \in RawLists}
  /\ builtinHeaderPath = BuiltinPath
  /\ InitResolver
  /\ InitUnits
  /\ InitOutput
  /\ InitLoaded

NextArgs ==
  \/ \E g \in {optNone, optDashC} : GetCompileParams(MainC, ftC, g, optNone)
  \/ GetCompileParams(HdrH, ftC, optNone, optNone)

SpecArgs == InitArgs /\ [][NextArgs]_vars

\* ------------------------------------------------------------------ C1, C2
\* What the claims about the filter are stated with: the last call, when it was
\* for a file with a compile command and returned.
HitReturned ==
  /\ call /= NoCall
  /\ lookupHits(compilation_database, call.fileName)
  /\ ~params.raised

RawOfCall == getCompileCommands(compilation_database, call.fileName).arguments
CwdOfCall == getCompileCommands(compilation_database, call.fileName).directory
ReturnedArgs == heap[params.value.args]

InList(t, list) == \E k \in 1..Len(list) : list[k] = t

\* path taken relative to directory cwd, as an absolute normalised path
AbsAgainst(cwd, path) ==
  normpath(IF Len(path) > 0 /\ path[1] = "/" THEN path ELSE cwd \o <<"/">> \o path)

\* token t names the file: it is its path, or resolves to it from cwd
NamesFile(t, cwd, file) == t = file \/ AbsAgainst(cwd, t) = file

\* Position i of raw holds what the filter takes for an output file name or
\* the compiler: the first position, and each position after a '-o' that is
\* itself taken for a flag.
Consumed(raw, cwd, file) ==
  LET c[i \in 1..Len(raw)] ==
        IF i = 1 THEN TRUE
        ELSE /\ ~c[i - 1]
             /\ raw[i - 1] = <<"-", "o">>
             /\ ~NamesFile(raw[i - 1], cwd, file)
  IN c

\* The positions of raw whose token is carried over into the arguments.
KeptPositions(raw, cwd, file) ==
  {i \in 1..Len(raw) :
     /\ ~Consumed(raw, cwd, file)[i]
     /\ raw[i] /= <<"-", "c">>
     /\ raw[i] /= <<"-", "o">>
     /\ ~NamesFile(raw[i], cwd, file)}

\* the k-th smallest element of a set of numbers
RECURSIVE Nth(_, _)
Nth(S, k) ==
  LET m == CHOOSE x \in S : \A y \in S : x <= y
  IN IF k = 1 THEN m ELSE Nth(S \ {m}, k - 1)

IsRelativeInclude(t) ==
  Len(t) >= 2 /\ SubSeq(t, 1, 2) = <<"-", "I">>
    /\ ~(Len(t) >= 3 /\ t[3] = "/")

AbsoluteInclude(t, cwd) == <<"-", "I">> \o AbsAgainst(cwd, SubSeq(t, 3, Len(t)))

\* The arguments the claim expects from the database: the kept tokens in
\* order, each relative -I made absolute.
ExpectedDBArgs(raw, cwd, file) ==
  LET kept == KeptPositions(raw, cwd, file)
  IN [k \in 1..Cardinality(kept) |->
        LET t == raw[Nth(kept, k)]
        IN IF IsRelativeInclude(t) THEN AbsoluteInclude(t, cwd) ELSE t]

\* C1 as stated: the arguments getCompileParams returns for a file with a
\* compile command include neither the compiler token, nor '-c', nor '-o' or
\* the token after it, nor a token naming the file.
C1_ReturnedArgsNeverIncludeDropped ==
  HitReturned =>
    LET raw == RawOfCall
        R   == ReturnedArgs
    IN /\ ~InList(raw[1], R)
       /\ ~InList(<<"-", "c">>, R)
       /\ ~InList(<<"-", "o">>, R)
       /\ \A i \in 1..(Len(raw) - 1) : raw[i] = <<"-", "o">> => ~InList(raw[i + 1], R)
       /\ \A k \in 1..Len(R) : ~NamesFile(R[k], CwdOfCall, call.fileName)

\* C1 (amended): the database-derived arguments, which lead the list that
\* getCompileParams returns, never contain '-c' or '-o' and are exactly the raw
\* tokens of the kept positions: not the first position, not a position after
\* a '-o' flag, not a token naming the file.  What getCompileParams appends
\* after them is not filtered.
C1_DatabaseArgsFiltered ==
  HitReturned =>
    LET E == ExpectedDBArgs(RawOfCall, CwdOfCall, call.fileName)
        R == ReturnedArgs
    IN /\ Len(R) >= Len(E)
       /\ SubSeq(R, 1, Len(E)) = E
       /\ heap[last_query.args] = E
       /\ ~InList(<<"-", "c">>, E)
       /\ ~InList(<<"-", "o">>, E)

\* A call for a command with an output file after '-o' and a '-c', while the
\* user options hold a '-c' of their own.
C1_Witness ==
  /\ HitReturned
  /\ \E i \in 2..(Len(RawOfCall) - 1) : RawOfCall[i] = <<"-", "o">>
  /\ InList(<<"-", "c">>, RawOfCall)
  /\ call.g = optDashC
  /\ InList(<<"-", "c">>, ReturnedArgs)

\* C2 as stated: every relative '-I' argument of the command, wherever it
\* stands in the raw list, is in the resolved arguments with its path made
\* absolute against the working directory.
C2_EveryRelativeIncludeAbsolute ==
  HitReturned =>
    \A i \in 1..Len(RawOfCall) :
      IsRelativeInclude(RawOfCall[i]) =>
        InList(AbsoluteInclude(RawOfCall[i], CwdOfCall), dbParams.args)

\* C2 (amended): every relative '-I' argument that is neither the first token
\* nor the token after a '-o' flag (and does not name the file) is in the
\* arguments getCompilationDBParams resolves, and in those getCompileParams
\* returns, with its path made absolute against the working directory.
C2_KeptRelativeIncludeAbsolute ==
  HitReturned =>
    \A i \in 1..Len(RawOfCall) :
      (/\ IsRelativeInclude(RawOfCall[i])
       /\ ~Consumed(RawOfCall, CwdOfCall, call.fileName)[i]
       /\ ~NamesFile(RawOfCall[i], CwdOfCall, call.fileName))
      => /\ InList(AbsoluteInclude(RawOfCall[i], CwdOfCall), dbParams.args)
         /\ InList(AbsoluteInclude(RawOfCall[i], CwdOfCall), ReturnedArgs)

\* '-I../i' of a command run in /q/r is resolved to '-I/q/i'.
C2_Witness ==
  /\ HitReturned
  /\ CwdOfCall = DirQ
  /\ \E i \in 2..Len(RawOfCall) :
       /\ RawOfCall[i] = tIrel
       /\ ~Consumed(RawOfCall, CwdOfCall, call.fileName)[i]
  /\ InList(<<"-", "I", "/", "q", "/", "i">>, dbParams.args)
  /\ ~InList(tIrel, dbParams.args)

\* ------------------------------------------------------------------ the session's database
\* Two compile commands a project's database holds.
cmdA == Cmds(DirP, <<tCC, DashC, DashO, tObj, tIrel, tSrc>>)
cmdB == Cmds(DirQ, <<tCC, DashI, tObj>>)

\* No database configured, or one with any of the two commands (or none) for
\* each file.
InitDB ==
  /\ compilation_database \in
       {NoDatabase} \cup {Database(c) : c \in [Files -> {NoCmds, cmdA, cmdB}]}
  /\ builtinHeaderPath \in {None, BuiltinPath}
  /\ InitResolver
  /\ InitUnits
  /\ InitOutput
  /\ InitLoaded

NextDB ==
  \E f \in Files, ft \in Filetypes, g \in GlobalOptions, b \in BufferOptions :
    GetCompileParams(f, ft, g, b)

SpecDB == InitDB /\ [][NextDB]_vars

\* ------------------------------------------------------------------ C3, C4
\* The {args, cwd} of the most recent successful lookup, from the command of
\* the file it was for; empty arguments and no directory before the first.
MostRecentSuccessful ==
  IF lastHit = None THEN [args |-> <<>>, cwd |-> None]
  ELSE LET cmd == compilation_database.commands[lastHit]
       IN [args |-> ExpectedDBArgs(cmd.arguments, cmd.directory, lastHit),
           cwd  |-> cmd.directory]

CallMissed ==
  /\ call /= NoCall
  /\ \/ ~compilation_database.configured
     \/ ~compilation_database.commands[call.fileName].found

\* C3: a call for a file without a compile command (or without a database)
\* gets from getCompilationDBParams exactly the {args, cwd} of the most recent
\* successful lookup, empty ones when there was none.
C3_MissReturnsLastSuccessful ==
  CallMissed => dbParams = MostRecentSuccessful

\* A header is resolved after a source file was: it gets the source's arguments.
C3_Witness ==
  /\ CallMissed
  /\ call.fileName = HdrH
  /\ lastHit = MainC
  /\ dbParams.args /= <<>>
  /\ dbParams.cwd /= None

\* C4: the stored last_query is, in every state, the {args, cwd} of the most
\* recent successful lookup: nothing a caller appends to the list it was
\* handed shows in it, and a call that finds no command leaves it alone.
C4_StoredQueryIsLastSuccessful ==
  /\ [args |-> heap[last_query.args], cwd |-> last_query.cwd] = MostRecentSuccessful
  /\ (call /= NoCall /\ ~params.raised) => params.value.args /= last_query.args

\* A header is resolved with user options after a source file was: the options
\* are in the returned list and not in the stored one.
C4_Witness ==
  /\ CallMissed
  /\ lastHit /= None
  /\ ~params.raised
  /\ call.g = optDashC
  /\ InList(<<"-", "c">>, ReturnedArgs)
  /\ ~InList(<<"-", "c">>, heap[last_query.args])
  /\ Len(ReturnedArgs) > Len(heap[last_query.args])

\* ------------------------------------------------------------------ the session
\* The requests of a session, on the threads that serve them.
Init ==
  /\ compilation_database = NoDatabase
  /\ builtinHeaderPath = None
  /\ InitResolver
  /\ InitUnits
  /\ InitOutput
  /\ InitLoaded

Next ==
  \/ \E t \in Threads, op \in Operations, f \in UnitFiles, c \in Contents,
        a \in ArgLists : Start(t, op, f, c, a)
  \/ \E t \in Threads : Get(t)
  \/ \E t \in Threads : EnterParse(t)
  \/ \E t \in Threads : ParseReturns(t)
  \/ \E t \in Threads : ParseRaises(t)
  \/ \E t \in Threads : Store(t)
  \/ \E t \in Threads : EnterReparse(t)
  \/ \E t \in Threads : ReparseReturns(t)
  \/ \E t \in Threads : Return(t)
  \/ \E t \in Threads : Lookup(t)
  \/ \E t \in Threads : EnterUse(t)
  \/ \E t \in Threads : UseReturns(t)
  \/ \E t \in Threads : Unlock(t)

Spec == Init /\ [][Next]_vars

\* ------------------------------------------------------------------ C5 .. C8
\* Thread t takes a step.
Moves(t) == pc'[t] /= pc[t]

\* C5: a getCurrentTranslationUnit call with update=False that finds a unit
\* cached for its path returns that unit, having called neither index.parse
\* nor reparse, and none of its steps changes the mapping or any unit.
C5_CachedNoUpdateReturnsCached ==
  [][\A t \in Threads :
       /\ (/\ pc[t] = "get" /\ Moves(t)
           /\ ~frame[t].update
           /\ translationUnits[frame[t].fileName] /= NoTU)
          => /\ pc'[t] = "ret"
             /\ frame'[t].tu = translationUnits[frame[t].fileName]
             /\ frame'[t].parses = 0 /\ frame'[t].reparses = 0
             /\ translationUnits' = translationUnits
             /\ tus' = tus
       /\ (/\ pc[t] = "ret" /\ Moves(t)
           /\ ~frame[t].update
           /\ frame[t].parses = 0)
          => /\ frame[t].tu /= NoTU /\ frame[t].reparses = 0
             /\ translationUnits' = translationUnits
             /\ tus' = tus
    ]_vars

\* A completion request returns the cached unit although its buffer text is
\* not the text the unit was parsed from.
C5_Witness ==
  \E t \in Threads :
    /\ pc[t] = "ret"
    /\ ~frame[t].update
    /\ frame[t].parses = 0 /\ frame[t].reparses = 0
    /\ frame[t].tu /= NoTU
    /\ translationUnits[frame[t].fileName] = frame[t].tu
    /\ tus[frame[t].tu].content /= frame[t].currentFile

\* C6: when getCurrentTranslationUnit is called with update=True and returns
\* a unit, the unit's parsed content is the buffer content of that call.
C6_UpdateReturnsParsedBuffer ==
  \A t \in Threads :
    (pc[t] = "ret" /\ frame[t].update /\ frame[t].tu /= NoTU)
      => tus[frame[t].tu].content = frame[t].currentFile

\* C7: a failed initial parse makes the call return None after one parse and
\* no reparse, without a step that changes the mapping or a unit; the
\* operation then ends without using a unit; and a call that finds no unit
\* for its path calls the parser, also after a failure for that path.
C7_FailedParseLeavesNoEntry ==
  [][\A t \in Threads :
       /\ (pc[t] = "in_parse" /\ Moves(t) /\ frame'[t].tu = NoTU)
          => /\ pc'[t] = "ret"
             /\ frame'[t].parses = 1 /\ frame'[t].reparses = 0
             /\ translationUnits' = translationUnits
             /\ tus' = tus
       /\ (pc[t] = "ret" /\ Moves(t) /\ frame[t].tu = NoTU)
          => /\ pc'[t] \in {"idle", "unlock"}
             /\ translationUnits' = translationUnits
             /\ tus' = tus
       /\ (/\ pc[t] = "get" /\ Moves(t)
           /\ translationUnits[frame[t].fileName] = NoTU)
          => pc'[t] = "parse" /\ frame'[t].parses = 0
       /\ (pc[t] = "parse" /\ Moves(t))
          => pc'[t] = "in_parse" /\ frame'[t].parses = 1
    ]_vars

\* The parser runs for a path whose parse has failed before.
C7_Witness ==
  \E t \in Threads :
    /\ pc[t] = "in_parse"
    /\ frame[t].retry
    /\ frame[t].fileName \in failedPaths
    /\ translationUnits[frame[t].fileName] = NoTU

\* C8: a thread inside a libclang call on the index or a translation unit
\* holds libclangLock, so no two threads are inside such calls at once.
C8_EngineCallsHoldLock ==
  /\ \A t \in Threads : InEngine(t) => libclangLock = t
  /\ \A t, u \in Threads : (InEngine(t) /\ InEngine(u)) => t = u

\* ------------------------------------------------------------------ the editor-facing outputs
\* A translation unit with any diagnostics, whose quickfix list is made.
InitQuickFix ==
  /\ compilation_database = NoDatabase
  /\ builtinHeaderPath = None
  /\ InitResolver
  /\ InitUnits
  /\ diagnostics \in SeqsUpTo(Diagnostics, MaxDiagnostics)
  /\ quickfix = <<>>
  /\ result = [string |-> <<>>, cursorKind |-> "FUNCTION_DECL"]
  /\ completion = NoCompletion
  /\ computed = "none"
  /\ InitGoto
  /\ InitLoaded

NextQuickFix == GetQuickFixList

SpecQuickFix == InitQuickFix /\ [][NextQuickFix]_vars

\* Any completion result, which is formatted.
InitFormat ==
  /\ compilation_database = NoDatabase
  /\ builtinHeaderPath = None
  /\ InitResolver
  /\ InitUnits
  /\ diagnostics = <<>>
  /\ quickfix = <<>>
  /\ result \in {[string |-> c, cursorKind |-> "FUNCTION_DECL"] :
                   c \in SeqsUpTo(Chunks, MaxChunks)}
  /\ completion = NoCompletion
  /\ computed = "none"
  /\ InitGoto
  /\ InitLoaded

NextFormat == FormatResult

SpecFormat == InitFormat /\ [][NextFormat]_vars

\* ------------------------------------------------------------------ C9
\* The type letter the claim gives a diagnostic, "dropped" where it gives none.
ClaimedType(d) ==
  IF d.severity \in {0, 1} THEN "I"
  ELSE IF d.severity = 2
    THEN (IF \E k \in 1..Len(d.spelling) :
               d.spelling[k] = "argument unused during compilation"
            THEN "dropped" ELSE "W")
  ELSE IF d.severity \in {3, 4} THEN "E"
  ELSE "dropped"

KeptDiagnostic(d) == ClaimedType(d) /= "dropped"

\* C9: the quickfix list holds, in the order of tu.diagnostics, one record per
\* diagnostic that is not dropped, with type I for Ignored and Note, W for a
\* Warning without the unused-argument phrase, E for Error and Fatal; a
\* diagnostic without a file is kept, with the empty file name.
C9_QuickFixListMapsSeverities ==
  computed = "quickfix" =>
    LET kept == SelectSeq(diagnostics, KeptDiagnostic)
    IN /\ Len(quickfix) = Len(kept)
       /\ \A k \in 1..Len(kept) :
            /\ ~quickfix[k].dropped
            /\ quickfix[k].type = ClaimedType(kept[k])
            /\ quickfix[k].text = kept[k].spelling
            /\ quickfix[k].lnum = kept[k].location.line
            /\ quickfix[k].col = kept[k].location.column
            /\ quickfix[k].bufnr =
                 <<"bufnr",
                   IF kept[k].location.file.present
                     THEN kept[k].location.file.name ELSE "",
                   "1">>

\* An unused-argument warning is dropped and a fatal error without a file,
\* reported after it, is kept.
C9_Witness ==
  /\ computed = "quickfix"
  /\ Len(diagnostics) = 2
  /\ diagnostics[1].severity = Warning
  /\ contains(diagnostics[1].spelling, unusedPhrase)
  /\ diagnostics[2].severity = Fatal
  /\ ~diagnostics[2].location.file.present
  /\ Len(quickfix) = 1
  /\ quickfix[1].type = "E"
  /\ quickfix[1].bufnr = bufnr("")

\* ------------------------------------------------------------------ C10
\* The chunks of the completion string that are neither informative nor a
\* result type.
Contributes(chunk) == chunk.kind \notin {"Informative", "ResultType"}

IsTypedText(chunk) == chunk.kind = "TypedText"

IsResultTypeChunk(chunk) == chunk.kind = "ResultType"

\* The spellings of the placeholders of a completion string, those nested in
\* optional chunks included.
RECURSIVE PlaceholderSpellings(_)
PlaceholderSpellings(chunks) ==
  IF Len(chunks) = 0 THEN {}
  ELSE LET c == Head(chunks) IN
    (IF c.kind = "Placeholder" THEN {c.spelling} ELSE {})
      \cup (IF c.kind = "Optional" THEN PlaceholderSpellings(c.string) ELSE {})
      \cup PlaceholderSpellings(Tail(chunks))

RECURSIVE SpellingsOf(_)
SpellingsOf(chunks) ==
  IF Len(chunks) = 0 THEN <<>> ELSE Head(chunks).spelling \o SpellingsOf(Tail(chunks))

HasOptional(chunks) == \E k \in 1..Len(chunks) : chunks[k].kind = "Optional"

\* C10: word and abbr are the spelling of the typed-text chunk; info is built
\* left to right, informative and result-type chunks add nothing to it and
\* every placeholder's spelling is in it; menu is the result type's spelling,
\* one space and info when the result has a result-type chunk and info
\* otherwise; dup is 1.
C10_FormatResultFields ==
  computed = "completion" =>
    LET chunks == result.string
        typed  == SelectSeq(chunks, IsTypedText)
        rtypes == SelectSeq(chunks, IsResultTypeChunk)
        others == SelectSeq(chunks, Contributes)
    IN /\ completion.word = completion.abbr
       /\ Len(typed) > 0 => completion.abbr = typed[Len(typed)].spelling
       /\ Len(typed) = 0 => completion.abbr = <<>>
       /\ completion.info = formatResult([result EXCEPT !.string = others]).info
       /\ ~HasOptional(chunks) => completion.info = SpellingsOf(others)
       /\ \A sp \in PlaceholderSpellings(chunks) : contains(completion.info, sp)
       /\ Len(rtypes) > 0 =>
            completion.menu =
              rtypes[Len(rtypes)].spelling \o <<" ">> \o completion.info
       /\ Len(rtypes) = 0 => completion.menu = completion.info
       /\ completion.dup = 1

\* A function with a result type, a name, a parameter and optional parameters.
C10_Witness ==
  /\ computed = "completion"
  /\ result.string = <<cResult, cTyped, cHolder, cOptYZ>>
  /\ completion.word = <<"f", "o", "o">>
  /\ completion.info =
       <<"f", "o", "o", "x", ",", "y", "=", "?", ",", "z", "=", "?">>
  /\ completion.menu =
       <<"i", "n", "t", " ", "f", "o", "o", "x", ",", "y", "=", "?", ",", "z", "=", "?">>

\* ------------------------------------------------------------------ the public operations, one call at a time
\* The databases CompilationDatabase.fromDirectory can load.
SessionDatabases ==
  {NoDatabase, Database([f \in Files |-> IF f = MainC THEN cmdA ELSE NoCmds])}

\* initClangComplete(): Index.create() raises (loads = FALSE) and 0 is
\* returned before any of the globals is bound, or the globals are bound and
\* 1 is returned.
InitClangComplete(loads, db, builtin) ==
  /\ session = "uninitialised"
  /\ IF loads
       THEN /\ session' = "loaded"
            /\ builtinHeaderPath' = builtin
            /\ translationUnits' = [f \in UnitFiles |-> NoTU]
            /\ compilation_database' = db
            /\ libclangLock' = Free
            /\ outcome' = Returned("initClangComplete", "1")
       ELSE /\ session' = "failed"
            /\ outcome' = Returned("initClangComplete", "0")
            /\ UNCHANGED <<builtinHeaderPath, translationUnits,
                           compilation_database, libclangLock>>
  /\ UNCHANGED <<last_query, heap, dbParams, params, call, lastHit,
                 tus, pc, frame, failedPaths, varsO, varsG, varsC>>

\* getCurrentTranslationUnit(args, currentFile, fileName, update), run
\* without another thread; parses tells whether index.parse succeeds
getCurrentTranslationUnit(units, mapping, args, currentFile, fileName, update, parses) ==
  LET tu == mapping[fileName] IN
  IF tu /= NoTU
    THEN [tus |-> IF update
                    THEN [units EXCEPT ![tu] = reparse(@, currentFile)]
                    ELSE units,
          translationUnits |-> mapping, tu |-> tu]
  ELSE IF ~parses
    THEN [tus |-> units, translationUnits |-> mapping, tu |-> NoTU]
  ELSE LET new == Len(units) + 1
       IN [tus |-> Append(units,
                     reparse(parse(fileName, args, currentFile), currentFile)),
           translationUnits |-> [mapping EXCEPT ![fileName] = new],
           tu |-> new]

\* updateCurrentDiagnostics() and gotoDeclaration() up to the end of their
\* getCurrentTranslationUnit call; both read the globals first in
\* getCompileParams
ResolveAndUpdate(op, g, b, currentFile, parses, whenUnit, whenNone) ==
  IF session = "failed"
    THEN /\ outcome' = Raised(op, "NameError")
         /\ UNCHANGED <<varsR, translationUnits, tus, failedPaths>>
    ELSE
      \E r \in {getCompileParams(compilation_database, builtinHeaderPath,
                                  MainC, ftC, g, b, last_query, heap)} :
         /\ last_query' = r.last_query
         /\ heap' = r.heap
         /\ dbParams' = r.dbParams
         /\ params' = r.ret
         /\ call' = [fileName |-> MainC, filetype |-> ftC, g |-> g, b |-> b]
         /\ lastHit' = IF lookupHits(compilation_database, MainC) THEN MainC ELSE lastHit
         /\ UNCHANGED <<compilation_database, builtinHeaderPath>>
         /\ IF r.ret.raised
              THEN /\ outcome' = Raised(op, r.ret.value)
                   /\ UNCHANGED <<translationUnits, tus, failedPaths>>
              ELSE
                \E u \in {getCurrentTranslationUnit(tus, translationUnits,
                           r.heap[r.ret.value.args], currentFile, MainC, TRUE, parses)} :
                   /\ tus' = u.tus
                   /\ translationUnits' = u.translationUnits
                   /\ failedPaths' = IF translationUnits[MainC] = NoTU /\ ~parses
                                       THEN failedPaths \cup {MainC} ELSE failedPaths
                   /\ outcome' = Returned(op, IF u.tu = NoTU THEN whenNone ELSE whenUnit)

\* updateCurrentDiagnostics()
UpdateCurrentDiagnostics(g, b, currentFile, parses) ==
  /\ session \in {"loaded", "failed"}
  /\ ResolveAndUpdate("updateCurrentDiagnostics", g, b, currentFile, parses,
                      "None", "None")
  /\ UNCHANGED <<libclangLock, pc, frame, varsO, varsG, session, varsC>>

\* gotoDeclaration(): "Couldn't get the TranslationUnit" is printed when tu
\* is None; the resolution itself is GotoDeclaration
GotoDeclarationCall(g, b, currentFile, parses) ==
  /\ session \in {"loaded", "failed"}
  /\ ResolveAndUpdate("gotoDeclaration", g, b, currentFile, parses,
                      "None", "None (printed)")
  /\ UNCHANGED <<libclangLock, pc, frame, varsO, varsG, session, varsC>>

\* getCurrentCompletionResults(line, column, args, currentFile, fileName)
GetCurrentCompletionResults(args, currentFile, parses) ==
  /\ session \in {"loaded", "failed"}
  /\ IF session = "failed"
       THEN /\ outcome' = Raised("getCurrentCompletionResults", "NameError")
            /\ UNCHANGED <<translationUnits, tus, failedPaths>>
       ELSE \E u \in {getCurrentTranslationUnit(tus, translationUnits, args,
                       currentFile, MainC, FALSE, parses)} :
               /\ tus' = u.tus
               /\ translationUnits' = u.translationUnits
               /\ failedPaths' = IF translationUnits[MainC] = NoTU /\ ~parses
                                   THEN failedPaths \cup {MainC} ELSE failedPaths
               /\ outcome' = Returned("getCurrentCompletionResults",
                                      IF u.tu = NoTU THEN "None" ELSE "cr")
  /\ UNCHANGED <<varsR, libclangLock, pc, frame, varsO, varsG, session, varsC>>

\* getCurrentQuickFixList()
GetCurrentQuickFixList ==
  /\ session \in {"loaded", "failed"}
  /\ outcome' =
       IF session = "failed" THEN Raised("getCurrentQuickFixList", "NameError")
       ELSE Returned("getCurrentQuickFixList",
                     IF translationUnits[MainC] /= NoTU THEN "quickfix list" ELSE "[]")
  /\ UNCHANGED <<varsR, varsT, varsO, varsG, session, varsC>>

\* highlightCurrentDiagnostics()
HighlightCurrentDiagnostics ==
  /\ session \in {"loaded", "failed"}
  /\ outcome' =
       IF session = "failed" THEN Raised("highlightCurrentDiagnostics", "NameError")
       ELSE Returned("highlightCurrentDiagnostics", "None")
  /\ UNCHANGED <<varsR, varsT, varsO, varsG, session, varsC>>

\* ------------------------------------------------------------------ declaration resolution
\* Any cursor with any two candidates, for which the declaration is asked.
InitDeclaration ==
  /\ compilation_database = NoDatabase
  /\ builtinHeaderPath = None
  /\ InitResolver
  /\ InitUnits
  /\ diagnostics = <<>>
  /\ quickfix = <<>>
  /\ result = [string |-> <<>>, cursorKind |-> "FUNCTION_DECL"]
  /\ completion = NoCompletion
  /\ computed = "none"
  /\ request \in Requests
  /\ target = NoTarget
  /\ jump = NoJump
  /\ gotoDone = FALSE
  /\ InitLoaded

NextDeclaration == GotoDeclaration

SpecDeclaration == InitDeclaration /\ [][NextDeclaration]_vars

\* ------------------------------------------------------------------ C11
\* The location the request asks about: (line, column + 1) of the buffer.
QueryLocation ==
  [file |-> [present |-> TRUE, name |-> request.bufferName],
   line |-> request.line, column |-> request.col + 1]

\* The candidate is there and is somewhere else than the query location.
Qualifies(c) == ~c.null /\ c.location /= QueryLocation

\* C11: with a translation unit, the target of gotoDeclaration is the
\* location of the cursor's definition when that is non-null and not at the
\* query location, else that of the referenced declaration under the same
\* condition, else there is none; without a target no jump is made, and a
\* jump that is made goes to the target (one is made only to a target that
\* has a file).
C11_FirstQualifyingCandidate ==
  (gotoDone /\ request.tu) =>
    /\ Qualifies(request.definition)
         => target.found /\ target.location = request.definition.location
    /\ (~Qualifies(request.definition) /\ Qualifies(request.referenced))
         => target.found /\ target.location = request.referenced.location
    /\ (~Qualifies(request.definition) /\ ~Qualifies(request.referenced))
         => ~target.found /\ ~jump.called
    /\ jump.called <=> (target.found /\ target.location.file.present)
    /\ (jump.called /\ ~request.preview /\ jump.moved)
         => jump.cursor = <<target.location.line, target.location.column - 1>>

\* The definition is at the query location and the referenced declaration,
\* in another file, is jumped to.
C11_Witness ==
  /\ gotoDone /\ request.tu /\ ~request.preview
  /\ ~request.definition.null
  /\ request.definition.location = QueryLocation
  /\ ~request.referenced.null
  /\ request.referenced.location.file = [present |-> TRUE, name |-> OtherName]
  /\ target.found /\ target.location = request.referenced.location
  /\ jump.called /\ jump.moved
  /\ jump.command = <<"edit", <<"/", "a", "\\", " ", "h">>>>

\* ------------------------------------------------------------------ the session from its start
\* Nothing has run: initClangComplete is called first.
InitSession ==
  /\ compilation_database = NoDatabase
  /\ builtinHeaderPath = None
  /\ InitResolver
  /\ InitUnits
  /\ InitOutput
  /\ session = "uninitialised"
  /\ outcome = NoOutcome

NextSession ==
  \/ \E loads \in BOOLEAN, db \in SessionDatabases, builtin \in {None, BuiltinPath} :
       InitClangComplete(loads, db, builtin)
  \/ \E g \in {optNone, optUnclosed}, c \in Contents, parses \in BOOLEAN :
       UpdateCurrentDiagnostics(g, optNone, c, parses)
  \/ \E g \in {optNone, optUnclosed}, c \in Contents, parses \in BOOLEAN :
       GotoDeclarationCall(g, optNone, c, parses)
  \/ \E c \in Contents, parses \in BOOLEAN :
       GetCurrentCompletionResults(<<>>, c, parses)
  \/ GetCurrentQuickFixList
  \/ HighlightCurrentDiagnostics

SpecSession == InitSession /\ [][NextSession]_vars

\* ------------------------------------------------------------------ C12
\* C12: once loading the engine has failed in initClangComplete, or the
\* parse of a file has failed, no public operation ends by raising.
C12_NoOperationRaises ==
  (session = "failed" \/ failedPaths /= {}) => ~outcome.raised

\* ------------------------------------------------------------------ C13, C14, C20
\* C13: a path that has a unit in the mapping keeps that very unit: no step
\* replaces or removes the entry.
C13_StoredHandleNeverReplaced ==
  [][\A f \in UnitFiles :
       translationUnits[f] /= NoTU => translationUnits'[f] = translationUnits[f]
    ]_vars

\* C14: a getCurrentTranslationUnit call that finds no entry and whose parse
\* succeeds stores the new unit under its path, then reparses it once with
\* the buffer content it was parsed from, and returns it after one parse and
\* one reparse, whatever update is.
C14_ParseThenOneReparse ==
  [][\A t \in Threads :
       /\ (pc[t] = "in_parse" /\ Moves(t) /\ frame'[t].tu /= NoTU)
          => /\ pc'[t] = "store"
             /\ frame'[t].parses = 1 /\ frame'[t].reparses = 0
             /\ tus'[frame'[t].tu].content = frame[t].currentFile
       /\ (pc[t] = "store" /\ Moves(t))
          => /\ pc'[t] = "reparse"
             /\ translationUnits'[frame[t].fileName] = frame[t].tu
       /\ (pc[t] = "reparse" /\ Moves(t) /\ frame[t].parses = 1)
          => pc'[t] = "in_reparse" /\ frame'[t].reparses = 1
       /\ (pc[t] = "in_reparse" /\ Moves(t) /\ frame[t].parses = 1)
          => /\ pc'[t] = "ret"
             /\ frame'[t].reparses = 1
             /\ frame'[t].currentFile = frame[t].currentFile
             /\ tus'[frame[t].tu].content = frame[t].currentFile
       /\ (pc[t] = "ret" /\ Moves(t) /\ frame[t].parses = 1 /\ frame[t].tu /= NoTU)
          => frame[t].reparses = 1
    ]_vars

\* A completion request (update=False) has parsed, stored and reparsed its
\* unit and is about to return it.
C14_Witness ==
  \E t \in Threads :
    /\ pc[t] = "ret"
    /\ ~frame[t].update
    /\ frame[t].parses = 1 /\ frame[t].reparses = 1
    /\ frame[t].tu /= NoTU
    /\ translationUnits[frame[t].fileName] = frame[t].tu
    /\ tus[frame[t].tu].content = frame[t].currentFile

\* C20: a getCurrentTranslationUnit call that finds a unit for its path never
\* calls index.parse, whatever its args and update are, and no step changes
\* the arguments a unit was parsed with.
C20_CachedUnitKeepsFirstArgs ==
  [][/\ \A t \in Threads :
          /\ (/\ pc[t] = "get" /\ Moves(t)
              /\ translationUnits[frame[t].fileName] /= NoTU)
             => /\ pc'[t] \in {"reparse", "ret"}
                /\ frame'[t].tu = translationUnits[frame[t].fileName]
          /\ (pc[t] \in {"reparse", "in_reparse", "ret"} /\ Moves(t)
              /\ frame[t].parses = 0)
             => /\ pc'[t] \notin {"parse", "in_parse", "store"}
                /\ frame'[t].parses = 0
     /\ \A k \in 1..Len(tus) : tus'[k].args = tus[k].args
    ]_vars

\* An update request with other arguments than the cached unit was parsed
\* with returns that unit, reparsed and not parsed again.
C20_Witness ==
  \E t \in Threads :
    /\ pc[t] = "ret"
    /\ frame[t].update
    /\ frame[t].parses = 0 /\ frame[t].reparses = 1
    /\ frame[t].tu /= NoTU
    /\ tus[frame[t].tu].args /= frame[t].args

\* ------------------------------------------------------------------ C15
\* The nested chunks that count in a level: all but the informative ones,
\* or all but the informative, result-type and typed-text ones.
CountsInLevel(chunk, all) ==
  /\ chunk.kind /= "Informative"
  /\ all \/ chunk.kind \notin {"ResultType", "TypedText"}

RECURSIVE LevelText(_, _)
LevelText(chunks, all) ==
  IF Len(chunks) = 0 THEN <<>>
  ELSE (IF CountsInLevel(Head(chunks), all) THEN Head(chunks).spelling ELSE <<>>)
         \o LevelText(Tail(chunks), all)

\* The strings of an optional chunk's nested sequence, one per nesting level,
\* the outer level first and then those of each nested optional chunk,
\* each followed by "=?".
RECURSIVE MarkedLevels(_, _)
RECURSIVE DeeperLevels(_, _)
MarkedLevels(chunks, all) ==
  LevelText(chunks, all) \o <<"=", "?">> \o DeeperLevels(chunks, all)

DeeperLevels(chunks, all) ==
  IF Len(chunks) = 0 THEN <<>>
  ELSE (IF Head(chunks).kind = "Optional"
          THEN MarkedLevels(Head(chunks).string, all) ELSE <<>>)
         \o DeeperLevels(Tail(chunks), all)

\* info, chunk by chunk: nothing for an informative or result-type chunk,
\* the marked levels and the own spelling for an optional chunk, the
\* spelling for any other.
RECURSIVE InfoOf(_, _)
InfoOf(chunks, all) ==
  IF Len(chunks) = 0 THEN <<>>
  ELSE LET c == Head(chunks) IN
    (IF c.kind \in {"Informative", "ResultType"} THEN <<>>
     ELSE IF c.kind = "Optional" THEN MarkedLevels(c.string, all) \o c.spelling
     ELSE c.spelling)
      \o InfoOf(Tail(chunks), all)

\* The word and abbr of the result without its optional chunks.
IsNotOptional(chunk) == chunk.kind /= "Optional"

AbbrWithoutOptionals ==
  formatResult([result EXCEPT !.string = SelectSeq(result.string, IsNotOptional)]).abbr

\* C15 as stated: every nested chunk's spelling (an informative chunk has
\* none to give) goes into the string of its level.
C15_EveryNestedSpellingAccumulates ==
  computed = "completion" =>
    /\ completion.info = InfoOf(result.string, TRUE)
    /\ completion.abbr = AbbrWithoutOptionals
    /\ completion.word = AbbrWithoutOptionals

\* C15: an optional chunk adds to info one string per nesting level, the
\* outer level first, each followed by "=?", made of the spellings of the
\* level's chunks other than informative, result-type and typed-text ones;
\* an optional chunk around the single placeholder y adds "y=?"; word and
\* abbr are what they are without the optional chunks.
C15_OptionalLevelsFlattened ==
  computed = "completion" =>
    /\ completion.info = InfoOf(result.string, FALSE)
    /\ result.string = <<cOptY>> => completion.info = <<"y", "=", "?">>
    /\ result.string = <<cOptT>> => completion.info = <<"=", "?">>
    /\ completion.abbr = AbbrWithoutOptionals
    /\ completion.word = AbbrWithoutOptionals

\* An optional chunk with a comma, a placeholder, an informative chunk and a
\* nested optional chunk gives two levels, and an optional chunk around a
\* typed-text chunk gives an empty one.
C15_Witness ==
  /\ computed = "completion"
  /\ result.string = <<cTyped, cOptYZ, cOptT>>
  /\ completion.info =
       <<"f", "o", "o", ",", "y", "=", "?", ",", "z", "=", "?", "=", "?">>
  /\ completion.abbr = <<"f", "o", "o">>

\* ------------------------------------------------------------------ language selection
\* The file names and language modes a buffer can have.
LangFiles ==
  {MainC, HdrH,
   <<"/", "p", "/", "a", ".", "h", "p", "p">>,
   <<"/", "p", "/", "s", ".", "s", "h">>,
   <<"/", "p", "/", "M", ".", "H">>,
   <<"/", "p", "/", "m", "k">>,
   <<"/", "h", ".", "d", "/", "x">>,
   <<"/", "p", "/", ".", "h">>,
   <<"/", "p", "/", "a", ".", "h", ".", "c">>,
   <<"/", "p", "/", "a", ".", "c", ".", "h">>}

LangModes ==
  {ftC, ftObjCpp,
   <<"c", "p", "p">>,
   <<"o", "b", "j", "c">>,
   <<"c", "p", "p", ".", "d">>,
   <<"o", "b", "j", "c", "p", "p", ".", "d">>,
   <<"d", ".", "c", "p", "p">>,
   <<"d", ".", "o", "b", "j", "c">>,
   <<"c", "u", "d", "a">>,
   <<>>}

\* No database, or one with a command for MainC only.
LangDatabases ==
  {NoDatabase, Database([f \in LangFiles |-> IF f = MainC THEN cmdA ELSE NoCmds])}

\* A session with or without a database, in which buffers of every name and
\* mode are resolved.
InitLanguage ==
  /\ compilation_database \in LangDatabases
  /\ builtinHeaderPath \in {None, BuiltinPath}
  /\ InitResolver
  /\ InitUnits
  /\ InitOutput
  /\ InitLoaded

NextLanguage ==
  \E f \in LangFiles, ft \in LangModes, g \in {optNone, optW} :
    GetCompileParams(f, ft, g, optNone)

SpecLanguage == InitLanguage /\ [][NextLanguage]_vars

\* ------------------------------------------------------------------ C16
\* The text occurs in the mode at position k.
OccursAt(text, mode, k) ==
  /\ k + Len(text) - 1 <= Len(mode)
  /\ \A i \in 1..Len(text) : mode[k + i - 1] = text[i]

NamesObjectiveC(mode) ==
  \E k \in 1..Len(mode) : OccursAt(<<"o", "b", "j", "c">>, mode, k)

IsOrStartsWithCpp(mode) ==
  \/ OccursAt(<<"c", "p", "p">>, mode, 1)
  \/ OccursAt(<<"o", "b", "j", "c", "p", "p">>, mode, 1)

\* The positions of the file's extension: from the last dot of the last path
\* component on, when a character other than a dot stands before that dot in
\* the component.
ExtensionPositions(file) ==
  LET slashes == {i \in 1..Len(file) : file[i] = "/"}
      start == IF slashes = {} THEN 1
               ELSE (CHOOSE i \in slashes : \A j \in slashes : j <= i) + 1
      dots == {i \in start..Len(file) : file[i] = "."}
  IN IF dots = {} THEN {}
     ELSE LET dot == CHOOSE i \in dots : \A j \in dots : j <= i
          IN IF \E i \in start..(dot - 1) : file[i] /= "."
               THEN dot..Len(file) ELSE {}

ExtensionHasH(file) == \E i \in ExtensionPositions(file) : file[i] = "h"

\* The language the claim gives a buffer.
ClaimedLanguage(file, mode) ==
  (IF NamesObjectiveC(mode)
     THEN <<"o", "b", "j", "e", "c", "t", "i", "v", "e", "-", "c">>
     ELSE <<"c">>)
    \o (IF IsOrStartsWithCpp(mode) THEN <<"+", "+">> ELSE <<>>)
    \o (IF ExtensionHasH(file) THEN <<"-", "h", "e", "a", "d", "e", "r">> ELSE <<>>)

\* The list a getCompileParams call has returned.
ReturnedList == heap[params.value.args]

CallReturned == call /= NoCall /\ ~params.raised

\* C16: the returned list has exactly one -x, followed by the language: c, or
\* objective-c when the mode names Objective-C, with ++ when the mode is or
\* starts with cpp or objcpp, with -header exactly when the file's extension
\* contains h.
C16_OneLanguageFlag ==
  CallReturned =>
    /\ Cardinality({k \in 1..Len(ReturnedList) : ReturnedList[k] = <<"-", "x">>}) = 1
    /\ \A k \in 1..Len(ReturnedList) :
         ReturnedList[k] = <<"-", "x">>
           => /\ k < Len(ReturnedList)
              /\ ReturnedList[k + 1] = ClaimedLanguage(call.fileName, call.filetype)

\* A C++ header whose mode only starts with cpp.
C16_Witness ==
  /\ CallReturned
  /\ call.fileName = <<"/", "p", "/", "a", ".", "h", "p", "p">>
  /\ call.filetype = <<"c", "p", "p", ".", "d">>
  /\ \E k \in 1..(Len(ReturnedList) - 1) :
       /\ ReturnedList[k] = <<"-", "x">>
       /\ ReturnedList[k + 1] = <<"c", "+", "+", "-", "h", "e", "a", "d", "e", "r">>

\* ------------------------------------------------------------------ C17
\* The words of the user options of the session.
WordsOf(options) ==
  IF options = optDashC THEN << <<"-", "c">>, <<"-", "D", " ", "U">> >>
  ELSE IF options = optW THEN << <<"-", "w">> >>
  ELSE <<>>

\* C17: the returned list is what getCompilationDBParams gave (the file's
\* filtered command, or the remembered one), then the words of the global
\* options, then those of the buffer's options, then -x and the language,
\* then -I with the builtin header path when there is one.
C17_ArgumentOrder ==
  CallReturned =>
    ReturnedList =
      dbParams.args
        \o WordsOf(call.g)
        \o WordsOf(call.b)
        \o << <<"-", "x">>, ClaimedLanguage(call.fileName, call.filetype) >>
        \o (IF builtinHeaderPath = None THEN <<>>
            ELSE << <<"-", "I">> \o builtinHeaderPath >>)

\* A file with a command, global and buffer options and a builtin header path.
C17_Witness ==
  /\ CallReturned
  /\ ~CallMissed
  /\ call.g = optDashC /\ call.b = optW
  /\ builtinHeaderPath = BuiltinPath
  /\ dbParams.args /= <<>>
  /\ Len(ReturnedList) = Len(dbParams.args) + 6
  /\ ReturnedList[Len(ReturnedList)] = <<"-", "I", "/", "b">>

\* ------------------------------------------------------------------ C18
\* The same call as the first call of a session with the same database.
FirstCall(fileName, filetype, g, b) ==
  getCompileParams(compilation_database, builtinHeaderPath, fileName, filetype,
                   g, b, [args |-> Stored, cwd |-> None],
                   [o \in {Stored, Copy} |-> <<>>])

FirstCallList(fileName, filetype, g, b) ==
  LET r == FirstCall(fileName, filetype, g, b) IN r.heap[r.ret.value.args]

\* What the file of the most recent successful lookup gets from the database.
LastHitParams ==
  IF lastHit = None THEN [args |-> <<>>, cwd |-> None]
  ELSE FirstCall(lastHit, ftC, optNone, optNone).dbParams

\* C18 as stated: a call returns what the same call returns as the first call
\* of the session, whatever calls came before it.
C18_ResultIndependentOfHistory ==
  CallReturned =>
    /\ ReturnedList = FirstCallList(call.fileName, call.filetype, call.g, call.b)
    /\ params.value.cwd =
         FirstCall(call.fileName, call.filetype, call.g, call.b).ret.value.cwd

\* C18: a call for a file with a compile command returns what it returns as
\* the first call of the session; a call for a file without one returns the
\* arguments and directory of the most recent successful lookup, followed by
\* what it returns as the first call of the session.
C18_DeterministicGivenLastHit ==
  CallReturned =>
    /\ ~CallMissed =>
         /\ ReturnedList = FirstCallList(call.fileName, call.filetype, call.g, call.b)
         /\ params.value.cwd =
              FirstCall(call.fileName, call.filetype, call.g, call.b).ret.value.cwd
    /\ CallMissed =>
         /\ ReturnedList =
              LastHitParams.args
                \o FirstCallList(call.fileName, call.filetype, call.g, call.b)
         /\ params.value.cwd = LastHitParams.cwd

\* A header without a command is resolved after a source file with one: it
\* does not get what it gets in a fresh session.
C18_Witness ==
  /\ CallReturned
  /\ CallMissed
  /\ call.fileName = HdrH
  /\ lastHit = MainC
  /\ ReturnedList /= FirstCallList(call.fileName, call.filetype, call.g, call.b)
  /\ params.value.cwd /= None

\* ------------------------------------------------------------------ concurrent resolution
\* A database with commands for two files in two directories and none for
\* the header.
InitConcurrent ==
  /\ compilation_database =
       Database([f \in Files |-> IF f = MainC THEN cmdA
                                 ELSE IF f = OtherC THEN cmdB ELSE NoCmds])
  /\ builtinHeaderPath = None
  /\ InitResolver
  /\ InitUnits
  /\ InitOutput
  /\ InitLoaded

NextConcurrent ==
  \/ \E t \in Threads, f \in Files : CallDB(t, f)
  \/ \E t \in Threads : LookupDB(t)
  \/ \E t \in Threads : AssignQuery(t)
  \/ \E t \in Threads : ReadQuery(t)
  \/ \E t \in Threads : ReturnCopy(t)

SpecConcurrent == InitConcurrent /\ [][NextConcurrent]_vars

\* ------------------------------------------------------------------ C19
\* What the database holds for a file.
OwnEntry(f) ==
  LET cmd == compilation_database.commands[f]
  IN [args |-> ExpectedDBArgs(cmd.arguments, cmd.directory, f),
      cwd  |-> cmd.directory]

\* C19: in every interleaving, a getCompilationDBParams call for a file with a
\* compile command returns the arguments and directory of that file's
\* command, and every call returns the arguments and directory of one and
\* the same lookup (or the empty initial ones).
C19_ConcurrentCallsGetOwnEntry ==
  \A t \in Threads :
    (rpc[t] = "idle" /\ rframe[t].done) =>
      /\ compilation_database.commands[rframe[t].fileName].found
           => rframe[t].ret = OwnEntry(rframe[t].fileName)
      /\ \/ rframe[t].ret = [args |-> <<>>, cwd |-> None]
         \/ \E f \in Files :
              /\ compilation_database.commands[f].found
              /\ rframe[t].ret = OwnEntry(f)

====
